---- MODULE Spec2Model ----
(***************************************************************************)
(* Model of the `invariants` crate (src/src/lib.rs): leveled assertions    *)
(* gated by a build-time ceiling (STATIC_MAX_LEVEL), a process-wide        *)
(* run-time ceiling (MAX_LEVEL) and an optional per-call AssertConfig.     *)
(***************************************************************************)
EXTENDS Integers, FiniteSets, Sequences

VARIABLES
    features,       \* cargo features selected for the build (cfg(feature = ...))
    MAX_LEVEL,      \* static mut MAX_LEVEL
    counter,        \* side effect of the guarded expression: times it was evaluated
    enabledChecks,  \* history: number of checks whose ceilings all permitted them
    lastCheck,      \* history: <<>> or <<record of the most recent check>>
    ret,            \* history: <<v>> if the most recent operation was max_level() returning v
    lastSet,        \* history: argument of the most recent set_max_level call
    pc,             \* test harness: position of each #[test] function
    tconfig,        \* test harness: the `config` local of each test
    tpanic          \* test harness: whether each test's thread panicked

vars == <<features, MAX_LEVEL, counter, enabledChecks, lastCheck, ret,
          lastSet, pc, tconfig, tpanic>>

(***************************************************************************)
(* AssertLevel = log::LevelFilter, ordered by its discriminant.            *)
(***************************************************************************)
Off == 0
Error == 1
Warn == 2
Info == 3
Debug == 4
Trace == 5

AssertLevel == {Off, Error, Warn, Info, Debug, Trace}

\* The levels that have an assertion macro: eassert .. tassert.
MacroLevels == {Error, Warn, Info, Debug, Trace}

\* Bound on the side-effect counter of the guarded expression.
MaxCount == 2

(***************************************************************************)
(* Build: the cfg(feature) items defining STATIC_MAX_LEVEL.                *)
(***************************************************************************)
FeatureNames == {"off", "error", "warn", "info", "debug", "trace"}

\* The feature set cargo activates when the build selects none.
DefaultFeatures == {"trace"}

ActiveFeatures(selected) == IF selected = {} THEN DefaultFeatures ELSE selected

\* A plausible slip in the cfg items: the warn and info items swapped.
StaticDefsSwapped(feats) ==
    {Off : f \in feats \cap {"off"}}
        \cup {Error : f \in feats \cap {"error"}}
        \cup {Info : f \in feats \cap {"warn"}}
        \cup {Warn : f \in feats \cap {"info"}}
        \cup {Debug : f \in feats \cap {"debug"}}
        \cup {Trace : f \in feats \cap {"trace"}}

\* The set of `pub const STATIC_MAX_LEVEL` items that survive cfg stripping.
StaticDefs(feats) ==
    {Off : f \in feats \cap {"off"}}
        \cup {Error : f \in feats \cap {"error"}}
        \cup {Warn : f \in feats \cap {"warn"}}
        \cup {Info : f \in feats \cap {"info"}}
        \cup {Debug : f \in feats \cap {"debug"}}
        \cup {Trace : f \in feats \cap {"trace"}}

\* The crate compiles iff exactly one definition of the constant remains
\* (none: unresolved name; several: duplicate definition).
Builds == Cardinality(StaticDefs(ActiveFeatures(features))) = 1

STATIC_MAX_LEVEL == CHOOSE l \in StaticDefs(ActiveFeatures(features)) : TRUE

(***************************************************************************)
(* Run-time ceiling accessors and AssertConfig.                            *)
(***************************************************************************)
MAX_LEVEL_initial == Trace

max_level == MAX_LEVEL

AssertConfig_new(assertion_level) == [assertion_level |-> assertion_level]

assertion_level(self) == self.assertion_level

(***************************************************************************)
(* The gate of each macro arm, as written in the macro.                    *)
(* X_config is the arm taking `$config:expr;` first, X the plain arm.      *)
(***************************************************************************)
\* A plausible slip: the build-time ceiling left out of one arm.
eassert_config_no_static(cfg) ==
    /\ Error <= max_level
    /\ Error <= assertion_level(cfg)

eassert_config(cfg) ==
    /\ Error <= STATIC_MAX_LEVEL
    /\ Error <= max_level
    /\ Error <= assertion_level(cfg)

eassert ==
    /\ Error <= STATIC_MAX_LEVEL
    /\ Error <= max_level

\* A plausible slip: the config's level left out of one arm.
wassert_config_no_config(cfg) ==
    /\ Warn <= STATIC_MAX_LEVEL
    /\ Warn <= max_level

wassert_config(cfg) ==
    /\ Warn <= STATIC_MAX_LEVEL
    /\ Warn <= max_level
    /\ Warn <= assertion_level(cfg)

wassert ==
    /\ Warn <= STATIC_MAX_LEVEL
    /\ Warn <= max_level

iassert_config(cfg) ==
    /\ Info <= STATIC_MAX_LEVEL
    /\ Info <= max_level
    /\ Info <= assertion_level(cfg)

\* A plausible slip: the run-time ceiling left out of one arm.
iassert_no_runtime ==
    /\ Info <= STATIC_MAX_LEVEL

iassert ==
    /\ Info <= STATIC_MAX_LEVEL
    /\ Info <= max_level

dassert_config(cfg) ==
    /\ Debug <= STATIC_MAX_LEVEL
    /\ Debug <= max_level
    /\ Debug <= assertion_level(cfg)

dassert ==
    /\ Debug <= STATIC_MAX_LEVEL
    /\ Debug <= max_level

\* The other reading of the override: the config consulted instead of the
\* run-time ceiling.
tassert_config_exclusive(cfg) ==
    /\ Trace <= STATIC_MAX_LEVEL
    /\ Trace <= assertion_level(cfg)

tassert_config(cfg) ==
    /\ Trace <= STATIC_MAX_LEVEL
    /\ Trace <= max_level
    /\ Trace <= assertion_level(cfg)

tassert ==
    /\ Trace <= STATIC_MAX_LEVEL
    /\ Trace <= max_level

\* The macro a call site at level L invokes.
GateConfig(L, cfg) ==
    CASE L = Error -> eassert_config(cfg)
      [] L = Warn  -> wassert_config(cfg)
      [] L = Info  -> iassert_config(cfg)
      [] L = Debug -> dassert_config(cfg)
      [] L = Trace -> tassert_config(cfg)

Gate(L) ==
    CASE L = Error -> eassert
      [] L = Warn  -> wassert
      [] L = Info  -> iassert
      [] L = Debug -> dassert
      [] L = Trace -> tassert

\* A plausible slip: the expression evaluated before the gate is tested.
if_assert_eager(gate, expr) ==
    [evaluated |-> TRUE, panicked |-> gate /\ ~expr]

\* A plausible slip: the failure raised whatever the gate says.
if_assert_ungated(gate, expr) ==
    [evaluated |-> gate, panicked |-> ~expr]

\* `if <gate> { assert!(expr); }`: the expression is evaluated only inside
\* the branch, and assert! panics iff it evaluated to false.
if_assert(gate, expr) ==
    [evaluated |-> gate, panicked |-> gate /\ ~expr]

(***************************************************************************)
(* The #[test] functions of mod tests.                                     *)
(***************************************************************************)
Tests == {"it_works", "it_crashes", "config_sanity", "config_crashes",
          "config_filters", "max_level_filters", "max_level_sanity"}

\* The tests marked #[should_panic].
should_panic == {"it_crashes", "config_crashes", "max_level_sanity"}

\* What a library user's program does not use: the harness is idle.
HarnessIdle ==
    /\ pc = [t \in Tests |-> "idle"]
    /\ tconfig = [t \in Tests |-> <<>>]
    /\ tpanic = [t \in Tests |-> FALSE]

(***************************************************************************)
(* A program using the crate: any sequence of the public operations.       *)
(***************************************************************************)
Init ==
    /\ features \in SUBSET FeatureNames
    /\ MAX_LEVEL = MAX_LEVEL_initial
    /\ counter = 0
    /\ enabledChecks = 0
    /\ lastCheck = <<>>
    /\ ret = <<>>
    /\ lastSet = Trace
    /\ HarnessIdle

\* Every ceiling that applies to a check at level L permits it, with cfg the
\* supplied config's level as <<l>>, or <<>> when none is supplied.
Permitted(L, cfg) ==
    /\ L <= STATIC_MAX_LEVEL
    /\ L <= MAX_LEVEL
    /\ \A i \in 1..Len(cfg) : L <= cfg[i]

\* A plausible slip: the ceiling may only be lowered.
set_max_level_lower_only(level) ==
    /\ Builds
    /\ MAX_LEVEL' = IF level <= MAX_LEVEL THEN level ELSE MAX_LEVEL
    /\ lastSet' = level
    /\ ret' = <<>>
    /\ UNCHANGED <<features, counter, enabledChecks, lastCheck,
                   pc, tconfig, tpanic>>

\* pub fn set_max_level(level)
set_max_level(level) ==
    /\ Builds
    /\ MAX_LEVEL' = level
    /\ lastSet' = level
    /\ ret' = <<>>
    /\ UNCHANGED <<features, counter, enabledChecks, lastCheck,
                   pc, tconfig, tpanic>>

\* A plausible slip: reading the ceiling resets it to its default.
max_level_call_resets ==
    /\ Builds
    /\ ret' = <<max_level>>
    /\ MAX_LEVEL' = MAX_LEVEL_initial
    /\ UNCHANGED <<features, counter, enabledChecks, lastCheck,
                   lastSet, pc, tconfig, tpanic>>

\* A call of pub fn max_level()
max_level_call ==
    /\ Builds
    /\ ret' = <<max_level>>
    /\ UNCHANGED <<features, MAX_LEVEL, counter, enabledChecks,
                   lastCheck, lastSet, pc, tconfig, tpanic>>

\* The record kept of a check: its level, the config level it was given
\* (<<>> for the plain arm), the value its expression has, whether the
\* run-time ceiling held at the call admits the level, and what the macro did.
CheckRecord(L, cfg, expr, o) ==
    [L |-> L, cfg |-> cfg, expr |-> expr, rt_permits |-> L <= MAX_LEVEL,
     evaluated |-> o.evaluated, panicked |-> o.panicked]

\* A call `Xassert!(expr)` at level L, where evaluating expr bumps counter.
check_plain(L, expr) ==
    /\ Builds
    /\ counter < MaxCount
    /\ LET o == if_assert(Gate(L), expr) IN
        /\ counter' = IF o.evaluated THEN counter + 1 ELSE counter
        /\ lastCheck' = <<CheckRecord(L, <<>>, expr, o)>>
    /\ enabledChecks' = IF Permitted(L, <<>>) THEN enabledChecks + 1 ELSE enabledChecks
    /\ ret' = <<>>
    /\ UNCHANGED <<features, MAX_LEVEL, lastSet, pc, tconfig, tpanic>>

\* `let config = AssertConfig::new(level); Xassert!(config; expr)` at level L.
check_config(L, level, expr) ==
    /\ Builds
    /\ counter < MaxCount
    /\ LET config == AssertConfig_new(level)
           o == if_assert(GateConfig(L, config), expr) IN
        /\ counter' = IF o.evaluated THEN counter + 1 ELSE counter
        /\ lastCheck' = <<CheckRecord(L, <<level>>, expr, o)>>
    /\ enabledChecks' = IF Permitted(L, <<level>>)
                        THEN enabledChecks + 1 ELSE enabledChecks
    /\ ret' = <<>>
    /\ UNCHANGED <<features, MAX_LEVEL, lastSet, pc, tconfig, tpanic>>

Next ==
    \/ \E level \in AssertLevel : set_max_level(level)
    \/ max_level_call
    \/ \E L \in MacroLevels, expr \in BOOLEAN : check_plain(L, expr)
    \/ \E L \in MacroLevels, level \in AssertLevel, expr \in BOOLEAN :
            check_config(L, level, expr)

Spec == Init /\ [][Next]_vars

(***************************************************************************)
(* The test suite: cargo's harness runs every #[test] function on a thread *)
(* of its own inside one process, in no fixed order, so the tests share    *)
(* MAX_LEVEL.  The accesses to the static mut are unsynchronized; a load   *)
(* or store of the word-sized LevelFilter is one step, so that a racing    *)
(* read yields the value before or after the racing write, as either       *)
(* interleaving does.  A panic ends the test function at the macro.        *)
(***************************************************************************)
TestInit ==
    /\ features \in SUBSET FeatureNames
    /\ Builds
    /\ Debug <= STATIC_MAX_LEVEL
    /\ MAX_LEVEL = MAX_LEVEL_initial
    /\ counter = 0
    /\ enabledChecks = 0
    /\ lastCheck = <<>>
    /\ ret = <<>>
    /\ lastSet = Trace
    /\ pc = [t \in Tests |-> "start"]
    /\ tconfig = [t \in Tests |-> <<>>]
    /\ tpanic = [t \in Tests |-> FALSE]

LibraryHistory == <<counter, enabledChecks, lastCheck, ret, lastSet>>

\* `let config = crate::AssertConfig { assertion_level: level };` in test t
test_let_config(t, level) ==
    /\ pc[t] = "start"
    /\ tconfig' = [tconfig EXCEPT ![t] = <<[assertion_level |-> level]>>]
    /\ pc' = [pc EXCEPT ![t] = "check"]
    /\ UNCHANGED <<features, MAX_LEVEL, tpanic, LibraryHistory>>

\* `crate::set_max_level(level);` in test t
test_set_max_level(t, level) ==
    /\ pc[t] = "start"
    /\ MAX_LEVEL' = level
    /\ pc' = [pc EXCEPT ![t] = "check"]
    /\ UNCHANGED <<features, tconfig, tpanic, LibraryHistory>>

\* The macro call of test t (then log::info!, unless the macro panicked).
test_check(t, at, gate, expr) ==
    /\ pc[t] = at
    /\ tpanic' = [tpanic EXCEPT ![t] = if_assert(gate, expr).panicked]
    /\ pc' = [pc EXCEPT ![t] = "done"]
    /\ UNCHANGED <<features, MAX_LEVEL, tconfig, LibraryHistory>>

it_works == test_check("it_works", "start", dassert, 2 + 2 = 4)

it_crashes == test_check("it_crashes", "start", dassert, 2 + 2 = 5)

config_sanity_let == test_let_config("config_sanity", Error)

config_sanity ==
    /\ pc["config_sanity"] = "check"
    /\ test_check("config_sanity", "check",
                  eassert_config(tconfig["config_sanity"][1]), 2 + 2 = 4)

config_crashes_let == test_let_config("config_crashes", Warn)

config_crashes ==
    /\ pc["config_crashes"] = "check"
    /\ test_check("config_crashes", "check",
                  eassert_config(tconfig["config_crashes"][1]), 2 + 2 = 3)

config_filters_let == test_let_config("config_filters", Warn)

config_filters ==
    /\ pc["config_filters"] = "check"
    /\ test_check("config_filters", "check",
                  iassert_config(tconfig["config_filters"][1]), 2 + 3 = 4)

max_level_filters_set == test_set_max_level("max_level_filters", Warn)

max_level_filters == test_check("max_level_filters", "check", iassert, 2 + 3 = 4)

max_level_sanity_set == test_set_max_level("max_level_sanity", Error)

max_level_sanity == test_check("max_level_sanity", "check", eassert, 2 + 3 = 4)

TestNext ==
    \/ it_works
    \/ it_crashes
    \/ config_sanity_let
    \/ config_sanity
    \/ config_crashes_let
    \/ config_crashes
    \/ config_filters_let
    \/ config_filters
    \/ max_level_filters_set
    \/ max_level_filters
    \/ max_level_sanity_set
    \/ max_level_sanity

TestSpec == TestInit /\ [][TestNext]_vars

(***************************************************************************)
(* Properties.                                                             *)
(***************************************************************************)
Checked == lastCheck # <<>>

lc == lastCheck[1]

\* Every ceiling that applied to the recorded check r admitted its level.
WasPermitted(r) ==
    /\ r.L <= STATIC_MAX_LEVEL
    /\ r.rt_permits
    /\ \A i \in 1..Len(r.cfg) : r.L <= r.cfg[i]

\* C1: a check without a config, at any level L, evaluates its expression
\* iff L <= STATIC_MAX_LEVEL and L <= the MAX_LEVEL held at the call.
C1_PlainGate ==
    (Checked /\ lc.cfg = <<>>) =>
        (lc.evaluated <=> (lc.L <= STATIC_MAX_LEVEL /\ lc.rt_permits))

\* With the static ceiling Debug and the run-time ceiling Warn, an Info-level
\* plain check did not evaluate its expression.
C1_Witness ==
    /\ Checked
    /\ STATIC_MAX_LEVEL = Debug
    /\ MAX_LEVEL = Warn
    /\ lc = [L |-> Info, cfg |-> <<>>, expr |-> FALSE, rt_permits |-> FALSE,
             evaluated |-> FALSE, panicked |-> FALSE]

\* C2: a check given a config evaluates its expression iff L <= STATIC_MAX_LEVEL
\* and L <= MAX_LEVEL at the call and L <= config.assertion_level(); a config
\* below L suppresses the check whatever MAX_LEVEL is.
C2_ConfigGate ==
    (Checked /\ lc.cfg # <<>>) =>
        /\ lc.evaluated <=>
              (lc.L <= STATIC_MAX_LEVEL /\ lc.rt_permits /\ lc.L <= lc.cfg[1])
        /\ lc.cfg[1] < lc.L => (~lc.evaluated /\ ~lc.panicked)

\* Config Error, run-time ceiling Trace, a Warn-level check on a false
\* expression: no failure.
C2_Witness ==
    /\ Checked
    /\ STATIC_MAX_LEVEL = Trace
    /\ MAX_LEVEL = Trace
    /\ lc = [L |-> Warn, cfg |-> <<Error>>, expr |-> FALSE, rt_permits |-> TRUE,
             evaluated |-> FALSE, panicked |-> FALSE]

\* C3 as stated: a check given a config ignores MAX_LEVEL, evaluating its
\* expression iff L <= STATIC_MAX_LEVEL and L <= config.assertion_level().
C3_ConfigBypassesRuntime ==
    (Checked /\ lc.cfg # <<>>) =>
        (lc.evaluated <=> (lc.L <= STATIC_MAX_LEVEL /\ lc.L <= lc.cfg[1]))

\* C3 amended: the config only narrows the gate. A check given a config is
\* never evaluated when L > MAX_LEVEL, and two successive configured checks
\* of one level and one config level that differ only in MAX_LEVEL decide
\* alike iff MAX_LEVEL admits L at both or at neither, or L exceeds
\* STATIC_MAX_LEVEL or the config's level.
C3_ConfigOnlyNarrows ==
    [][(/\ lastCheck # <<>>
        /\ lastCheck' # <<>>
        /\ lastCheck[1].cfg # <<>>
        /\ lastCheck'[1].cfg = lastCheck[1].cfg
        /\ lastCheck'[1].L = lastCheck[1].L) =>
          /\ (lastCheck'[1].evaluated = lastCheck[1].evaluated) <=>
                ~(/\ lastCheck[1].L <= STATIC_MAX_LEVEL
                  /\ lastCheck[1].L <= lastCheck[1].cfg[1]
                  /\ lastCheck'[1].rt_permits # lastCheck[1].rt_permits)
          /\ ~lastCheck'[1].rt_permits => ~lastCheck'[1].evaluated]_vars

\* A configured check that the static ceiling and the config admit, which
\* MAX_LEVEL suppressed, after another check was evaluated.
C3_Witness ==
    /\ Checked
    /\ lc.cfg # <<>>
    /\ lc.L <= STATIC_MAX_LEVEL
    /\ lc.L <= lc.cfg[1]
    /\ ~lc.rt_permits
    /\ ~lc.evaluated
    /\ counter >= 1

\* C4: a check some ceiling disables does not evaluate its expression, so the
\* expression's side-effect counter equals the number of checks that were
\* enabled when they ran.
C4_CounterCountsEnabled ==
    /\ counter = enabledChecks
    /\ (Checked /\ ~WasPermitted(lc)) => ~lc.evaluated

\* A Trace-level check under the static ceiling Error left the counter at the
\* one evaluation an earlier enabled check made.
C4_Witness ==
    /\ Checked
    /\ STATIC_MAX_LEVEL = Error
    /\ lc.L = Trace
    /\ ~lc.evaluated
    /\ counter = 1

\* C5: a check panics iff every applicable ceiling enables it and its
\* expression is false.
C5_PanicIffEnabledAndFalse ==
    Checked => (lc.panicked <=> (WasPermitted(lc) /\ ~lc.expr))

\* Static and run-time ceilings Trace: an Error-level check on a false
\* expression failed.
C5_Witness ==
    /\ Checked
    /\ STATIC_MAX_LEVEL = Trace
    /\ MAX_LEVEL = Trace
    /\ lc = [L |-> Error, cfg |-> <<>>, expr |-> FALSE, rt_permits |-> TRUE,
             evaluated |-> TRUE, panicked |-> TRUE]

\* C6: after set_max_level(v), max_level() returns v and a plain check gates
\* against v, until the next set_max_level.
C6_SetIsObserved ==
    [][/\ ret' # <<>> => ret' = <<lastSet>>
       /\ (lastCheck' # lastCheck /\ lastCheck'[1].cfg = <<>>) =>
            (lastCheck'[1].evaluated <=>
                (/\ lastCheck'[1].L <= STATIC_MAX_LEVEL
                 /\ lastCheck'[1].L <= lastSet))]_vars

\* After set_max_level(Warn): an Info-level plain check on a false expression
\* did not fail, and max_level() then returned Warn.
C6_Witness ==
    /\ lastSet = Warn
    /\ ret = <<Warn>>
    /\ Checked
    /\ STATIC_MAX_LEVEL = Trace
    /\ lc = [L |-> Info, cfg |-> <<>>, expr |-> FALSE, rt_permits |-> FALSE,
             evaluated |-> FALSE, panicked |-> FALSE]

\* C7: built with STATIC_MAX_LEVEL = Off, no check ever evaluates its
\* expression or fails.
C7_StaticOffDisablesAll ==
    (Builds /\ STATIC_MAX_LEVEL = Off) =>
        /\ counter = 0
        /\ Checked => (~lc.evaluated /\ ~lc.panicked)

\* Static ceiling Off, run-time ceiling and config Trace: an Error-level
\* check on a false expression did nothing.
C7_Witness ==
    /\ Builds
    /\ STATIC_MAX_LEVEL = Off
    /\ MAX_LEVEL = Trace
    /\ Checked
    /\ lc = [L |-> Error, cfg |-> <<Trace>>, expr |-> FALSE, rt_permits |-> TRUE,
             evaluated |-> FALSE, panicked |-> FALSE]

\* C8: MAX_LEVEL is Trace at start and changes only in set_max_level: it
\* always equals the argument of the latest set_max_level, or Trace.
C8_OnlySetChangesCeiling ==
    MAX_LEVEL = lastSet

\* After set_max_level(Info), a configured check failed and max_level() was
\* read; the ceiling is still Info.
C8_Witness ==
    /\ lastSet = Info
    /\ ret = <<Info>>
    /\ Checked
    /\ lc.cfg # <<>>
    /\ lc.panicked

\* The level each build option names.
OptionLevel(f) ==
    CASE f = "off"   -> Off
      [] f = "error" -> Error
      [] f = "warn"  -> Warn
      [] f = "info"  -> Info
      [] f = "debug" -> Debug
      [] f = "trace" -> Trace

\* C9: with exactly one build option selected STATIC_MAX_LEVEL is that
\* option's level; with none selected it is Trace.
C9_StaticCeilingSelection ==
    /\ \A f \in FeatureNames :
          features = {f} => (Builds /\ STATIC_MAX_LEVEL = OptionLevel(f))
    /\ features = {} => (Builds /\ STATIC_MAX_LEVEL = Trace)

\* Built with no option selected, a Trace-level check was evaluated.
C9_Witness ==
    /\ features = {}
    /\ Checked
    /\ lc.L = Trace
    /\ lc.evaluated

\* C10: whatever the order and interleaving of the tests, each finished
\* #[should_panic] test panicked and each other finished test did not.
C10_TestOutcomesFixed ==
    \A t \in Tests : pc[t] = "done" => (tpanic[t] <=> t \in should_panic)

====
